---- MODULE Spec2Model ----
(***************************************************************************)
(* MD5 digest engine of learning_crypto (src/hashing/md5.rs).              *)
(*                                                                         *)
(* A u32 is the pair <<hi, lo>> of its 16-bit halves (value hi*2^16 + lo), *)
(* a u64 / usize is the function 0..3 of its 16-bit limbs, least           *)
(* significant first.  All arithmetic below is done limb-wise so that the  *)
(* wrap-around of the fixed-width types is explicit.                       *)
(***************************************************************************)
EXTENDS Integers, Sequences, FiniteSets, TLC

\* ------------------------------------------------------------ u32 words

\* 2^16, the radix of the half-words and limbs of the representation.
Half == 256 * 256

RECURSIVE And16(_, _)
\* bitwise AND of two 16-bit values
And16(x, y) ==
    IF x = 0 \/ y = 0 THEN 0
    ELSE (x % 2) * (y % 2) + 2 * And16(x \div 2, y \div 2)

\* u32 `&`
BitAnd(x, y) == <<And16(x[1], y[1]), And16(x[2], y[2])>>
\* u32 `|`
BitOr(x, y) == <<x[1] + y[1] - And16(x[1], y[1]), x[2] + y[2] - And16(x[2], y[2])>>
\* u32 `^`
BitXor(x, y) ==
    <<x[1] + y[1] - 2 * And16(x[1], y[1]), x[2] + y[2] - 2 * And16(x[2], y[2])>>
\* u32 `!`
BitNot(x) == <<(Half - 1) - x[1], (Half - 1) - x[2]>>

\* u32::wrapping_add
wrapping_add(x, y) ==
    LET lo == x[2] + y[2]
        hi == x[1] + y[1] + (lo \div Half)
    IN  <<hi % Half, lo % Half>>

\* 2^n for 0 <= n <= 16
RECURSIVE Pow2(_)
Pow2(n) == IF n = 0 THEN 1 ELSE 2 * Pow2(n - 1)

\* u32::rotate_left
rotate_left(x, s) ==
    LET r  == s % 32
        hi == IF r >= 16 THEN x[2] ELSE x[1]
        lo == IF r >= 16 THEN x[1] ELSE x[2]
        t  == r % 16
        up == Pow2(t)
        dn == Pow2(16 - t)
    IN  <<(hi % dn) * up + (lo \div dn), (lo % dn) * up + (hi \div dn)>>

\* mutant of swap_bytes: the bytes are left in place
swap_bytes_none(x) == x

\* u32::swap_bytes
swap_bytes(x) ==
    <<(x[2] % 256) * 256 + (x[2] \div 256), (x[1] % 256) * 256 + (x[1] \div 256)>>

\* ------------------------------------------------- auxiliary functions

f(x, y, z) == BitOr(BitAnd(x, y), BitAnd(BitNot(x), z))

g(x, y, z) == BitOr(BitAnd(x, z), BitAnd(y, BitNot(z)))

h(x, y, z) == BitXor(BitXor(x, y), z)

\* mutant of i: z is not negated
i_without_not(x, y, z) == BitXor(y, BitOr(x, z))

i(x, y, z) == BitXor(y, BitOr(x, BitNot(z)))

\* ------------------------------------------------------------- rounds

\* $func($b, $c, $d) for the function named func
call(func, x, y, z) ==
    CASE func = "f" -> f(x, y, z)
      [] func = "g" -> g(x, y, z)
      [] func = "h" -> h(x, y, z)
      [] func = "i" -> i(x, y, z)

\* macro round_op!: the value it assigns to its first register
round_op(a, b, c, d, func, chunk, table_val, s) ==
    wrapping_add(b,
        rotate_left(
            wrapping_add(wrapping_add(wrapping_add(a, call(func, b, c, d)), chunk), table_val),
            s))

\* one invocation round_op!(r1, r2, r3, r4, func, chunks[k], table[t], s) on
\* the registers r = [a, b, c, d]
invoke(r, op, chunks, table) ==
    [r EXCEPT ![op[1]] =
        round_op(r[op[1]], r[op[2]], r[op[3]], r[op[4]], op[5],
                 chunks[op[6]], table[op[7]], op[8])]

RECURSIVE run_ops_from(_, _, _, _, _)
run_ops_from(n, r, ops, chunks, table) ==
    IF n > Len(ops) THEN r
    ELSE run_ops_from(n + 1, invoke(r, ops[n], chunks, table), ops, chunks, table)

\* a sequence of invocations, in program order
run_ops(r, ops, chunks, table) == run_ops_from(1, r, ops, chunks, table)

\* the four invocations of iteration n of the loop `for i in 0..4` of round_1,
\* with j = n * 4
round_1_body(j) ==
    << <<"a", "b", "c", "d", "f", j, j + 1, 7>>,
       <<"d", "a", "b", "c", "f", j + 1, j + 2, 12>>,
       <<"c", "d", "a", "b", "f", j + 2, j + 3, 17>>,
       <<"b", "c", "d", "a", "f", j + 3, j + 4, 22>> >>

RECURSIVE round_1_loop(_, _, _, _)
\* `for i in 0..4`, from iteration n on
round_1_loop(n, r, chunks, table) ==
    IF n >= 4 THEN r
    ELSE round_1_loop(n + 1, run_ops(r, round_1_body(n * 4), chunks, table), chunks, table)

round_1(a, b, c, d, chunks, table) ==
    round_1_loop(0, [a |-> a, b |-> b, c |-> c, d |-> d], chunks, table)

\* the round_op! invocations of round_2, in order: the four registers, the
\* auxiliary function, the index into chunks, the index into table, the shift
round_2_ops ==
    <<
       <<"a", "b", "c", "d", "g", 1, 17, 5>>,
       <<"d", "a", "b", "c", "g", 6, 18, 9>>,
       <<"c", "d", "a", "b", "g", 11, 19, 14>>,
       <<"b", "c", "d", "a", "g", 0, 20, 20>>,
       <<"a", "b", "c", "d", "g", 5, 21, 5>>,
       <<"d", "a", "b", "c", "g", 10, 22, 9>>,
       <<"c", "d", "a", "b", "g", 15, 23, 14>>,
       <<"b", "c", "d", "a", "g", 4, 24, 20>>,
       <<"a", "b", "c", "d", "g", 9, 25, 5>>,
       <<"d", "a", "b", "c", "g", 14, 26, 9>>,
       <<"c", "d", "a", "b", "g", 3, 27, 14>>,
       <<"b", "c", "d", "a", "g", 8, 28, 20>>,
       <<"a", "b", "c", "d", "g", 13, 29, 5>>,
       <<"d", "a", "b", "c", "g", 2, 30, 9>>,
       <<"c", "d", "a", "b", "g", 7, 31, 14>>,
       <<"b", "c", "d", "a", "g", 12, 32, 20>> >>

round_2(a, b, c, d, chunks, table) ==
    run_ops([a |-> a, b |-> b, c |-> c, d |-> d], round_2_ops, chunks, table)

\* the round_op! invocations of round_3, in order: the four registers, the
\* auxiliary function, the index into chunks, the index into table, the shift
round_3_ops ==
    <<
       <<"a", "b", "c", "d", "h", 5, 33, 4>>,
       <<"d", "a", "b", "c", "h", 8, 34, 11>>,
       <<"c", "d", "a", "b", "h", 11, 35, 16>>,
       <<"b", "c", "d", "a", "h", 14, 36, 23>>,
       <<"a", "b", "c", "d", "h", 1, 37, 4>>,
       <<"d", "a", "b", "c", "h", 4, 38, 11>>,
       <<"c", "d", "a", "b", "h", 7, 39, 16>>,
       <<"b", "c", "d", "a", "h", 10, 40, 23>>,
       <<"a", "b", "c", "d", "h", 13, 41, 4>>,
       <<"d", "a", "b", "c", "h", 0, 42, 11>>,
       <<"c", "d", "a", "b", "h", 3, 43, 16>>,
       <<"b", "c", "d", "a", "h", 6, 44, 23>>,
       <<"a", "b", "c", "d", "h", 9, 45, 4>>,
       <<"d", "a", "b", "c", "h", 12, 46, 11>>,
       <<"c", "d", "a", "b", "h", 15, 47, 16>>,
       <<"b", "c", "d", "a", "h", 2, 48, 23>> >>

round_3(a, b, c, d, chunks, table) ==
    run_ops([a |-> a, b |-> b, c |-> c, d |-> d], round_3_ops, chunks, table)

\* the round_op! invocations of round_4, in order: the four registers, the
\* auxiliary function, the index into chunks, the index into table, the shift
round_4_ops ==
    <<
       <<"a", "b", "c", "d", "i", 0, 49, 6>>,
       <<"d", "a", "b", "c", "i", 7, 50, 10>>,
       <<"c", "d", "a", "b", "i", 14, 51, 15>>,
       <<"b", "c", "d", "a", "i", 5, 52, 21>>,
       <<"a", "b", "c", "d", "i", 12, 53, 6>>,
       <<"d", "a", "b", "c", "i", 3, 54, 10>>,
       <<"c", "d", "a", "b", "i", 10, 55, 15>>,
       <<"b", "c", "d", "a", "i", 1, 56, 21>>,
       <<"a", "b", "c", "d", "i", 8, 57, 6>>,
       <<"d", "a", "b", "c", "i", 15, 58, 10>>,
       <<"c", "d", "a", "b", "i", 6, 59, 15>>,
       <<"b", "c", "d", "a", "i", 13, 60, 21>>,
       <<"a", "b", "c", "d", "i", 4, 61, 6>>,
       <<"d", "a", "b", "c", "i", 11, 62, 10>>,
       <<"c", "d", "a", "b", "i", 2, 63, 15>>,
       <<"b", "c", "d", "a", "i", 9, 64, 21>> >>

round_4(a, b, c, d, chunks, table) ==
    run_ops([a |-> a, b |-> b, c |-> c, d |-> d], round_4_ops, chunks, table)


\* -------------------------------------------------------- value table

\* build_value_table: T[0] = 0 and T[k] = floor(|sin(k)| * 2^32), k = 1..64,
\* each value written as <<hi, lo>>
TableValues == <<
    <<0, 0>>, <<55146, 42104>>, <<59591, 46934>>, <<9248, 28891>>,
    <<49597, 52974>>, <<62844, 4015>>, <<18311, 50730>>, <<43056, 17939>>,
    <<64838, 38145>>, <<27008, 39128>>, <<35652, 63407>>, <<65535, 23473>>,
    <<35164, 55230>>, <<27536, 4386>>, <<64920, 29075>>, <<42617, 17294>>,
    <<18868, 2081>>, <<63006, 9570>>, <<49216, 45888>>, <<9822, 23121>>,
    <<59830, 51114>>, <<54831, 4189>>, <<580, 5203>>, <<55457, 59009>>,
    <<59347, 64456>>, <<8673, 52710>>, <<49975, 2006>>, <<62677, 3463>>,
    <<17754, 5357>>, <<43491, 59653>>, <<64751, 41976>>, <<26479, 729>>,
    <<36138, 19594>>, <<65530, 14658>>, <<34673, 63105>>, <<28061, 24866>>,
    <<64997, 14348>>, <<42174, 59972>>, <<19422, 53161>>, <<63163, 19296>>,
    <<48831, 48240>>, <<10395, 32454>>, <<60065, 10234>>, <<54511, 12421>>,
    <<1160, 7429>>, <<55764, 53305>>, <<59099, 39397>>, <<8098, 31992>>,
    <<50348, 22117>>, <<62505, 8772>>, <<17194, 65431>>, <<43924, 9127>>,
    <<64659, 41017>>, <<25947, 22979>>, <<36620, 52370>>, <<65519, 62589>>,
    <<34180, 24017>>, <<28584, 32335>>, <<65068, 59104>>, <<41729, 17172>>,
    <<19976, 4513>>, <<63315, 32386>>, <<48442, 62005>>, <<10967, 53947>>,
    <<60294, 54161>>
>>

build_value_table == [k \in 0..64 |-> TableValues[k + 1]]

\* ------------------------------------------------ usize / u64 and padding

\* a length below 2^31 as a usize (limbs, least significant first)
ToUsize(n) == <<n % Half, n \div Half, 0, 0>>

\* `x as u64` of a usize of `bits` bits: zero extension
AsU64(x, bits) == IF bits = 64 THEN x ELSE <<x[1], x[2], 0, 0>>

\* x + n for a usize x and 0 <= n < 2^15 (Vec::push n times, no capacity overflow)
UsizeAdd(x, n) ==
    LET s1 == x[1] + n
        s2 == x[2] + (s1 \div Half)
        s3 == x[3] + (s2 \div Half)
        s4 == x[4] + (s3 \div Half)
    IN  <<s1 % Half, s2 % Half, s3 % Half, s4 % Half>>

\* the multiplication `x * 8` in an unsigned type of `bits` bits: the wrapped
\* product and whether the exact product does not fit
Mul8(x, bits) ==
    LET p1 == x[1] * 8
        p2 == x[2] * 8 + (p1 \div Half)
        p3 == x[3] * 8 + (p2 \div Half)
        p4 == x[4] * 8 + (p3 \div Half)
    IN  IF bits = 64
        THEN [value |-> <<p1 % Half, p2 % Half, p3 % Half, p4 % Half>>,
              overflow |-> p4 \div Half # 0]
        ELSE [value |-> <<p1 % Half, p2 % Half, 0, 0>>,
              overflow |-> p2 \div Half # 0 \/ x[3] # 0 \/ x[4] # 0]

\* the operator `*` of Rust on that product: with overflow checks (the dev and
\* test profiles) an overflow panics, without them (release) it wraps
MulPanics(x, bits, checks) == checks /\ Mul8(x, bits).overflow

\* mutant of pad_more: pads to 0 instead of 448 modulo 512
pad_more_to_512(len, bits) == Mul8(len, bits).value[1] % 512 # 0

\* the loop condition `((bytes.len() * 8) % 512) != 448`, on the length
pad_more(len, bits) == Mul8(len, bits).value[1] % 512 # 448

\* u64_to_array_u8: byte k (k = 0..7) is `(size >> (k * 8)) as u8`
u64_to_array_u8(size) ==
    [k \in 1..8 |->
        (size[((k - 1) \div 2) + 1] \div (IF (k - 1) % 2 = 1 THEN 256 ELSE 1)) % 256]

RECURSIVE pad_loop(_, _, _)
\* the `while` loop of pad_input: [panic, bytes]
pad_loop(bytes, bits, checks) ==
    IF MulPanics(ToUsize(Len(bytes)), bits, checks)
    THEN [panic |-> TRUE, bytes |-> bytes]
    ELSE IF pad_more(ToUsize(Len(bytes)), bits)
         THEN pad_loop(Append(bytes, 0), bits, checks)
         ELSE [panic |-> FALSE, bytes |-> bytes]

\* mutant of pad_input: the byte 0x80 is not pushed
pad_input_no_terminator(text, bits, checks) ==
    LET looped       == pad_loop(text, bits, checks)
        len64        == AsU64(ToUsize(Len(text)), bits)
        size_in_bits == Mul8(len64, 64).value
    IN  IF looped.panic \/ MulPanics(len64, 64, checks)
        THEN [panic |-> TRUE, bytes |-> <<>>]
        ELSE [panic |-> FALSE, bytes |-> looped.bytes \o u64_to_array_u8(size_in_bits)]

\* pad_input on a text given by its bytes: [panic, bytes]
pad_input(text, bits, checks) ==
    LET looped       == pad_loop(Append(text, 128), bits, checks)
        len64        == AsU64(ToUsize(Len(text)), bits)
        size_in_bits == Mul8(len64, 64).value
    IN  IF looped.panic \/ MulPanics(len64, 64, checks)
        THEN [panic |-> TRUE, bytes |-> <<>>]
        ELSE [panic |-> FALSE, bytes |-> looped.bytes \o u64_to_array_u8(size_in_bits)]

RECURSIVE pad_len_loop(_, _, _)
\* the `while` loop of pad_input on the length of `bytes` alone: [panic, len]
pad_len_loop(len, bits, checks) ==
    IF MulPanics(len, bits, checks)
    THEN [panic |-> TRUE, len |-> len]
    ELSE IF pad_more(len, bits)
         THEN pad_len_loop(UsizeAdd(len, 1), bits, checks)
         ELSE [panic |-> FALSE, len |-> len]

\* pad_input on a text of which only the length (a usize) is known: whether it
\* panics, the length of its output and the last 8 bytes of its output
pad_input_len(text_len, bits, checks) ==
    LET looped       == pad_len_loop(UsizeAdd(text_len, 1), bits, checks)
        len64        == AsU64(text_len, bits)
        size_in_bits == Mul8(len64, 64).value
    IN  IF looped.panic \/ MulPanics(len64, 64, checks)
        THEN [panic |-> TRUE, len |-> <<0, 0, 0, 0>>, tail |-> <<>>]
        ELSE [panic |-> FALSE, len |-> UsizeAdd(looped.len, 8),
              tail |-> u64_to_array_u8(size_in_bits)]

\* ------------------------------------------------------- block decoder

\* u32::from_ne_bytes([b0, b1, b2, b3]) on a target of the given byte order
from_ne_bytes(b0, b1, b2, b3, endian) ==
    IF endian = "little"
    THEN <<b3 * 256 + b2, b1 * 256 + b0>>
    ELSE <<b0 * 256 + b1, b2 * 256 + b3>>

\* bytes_to_u32_chunks: one word per 4-byte chunk of `bytes`, in order
\* (indexing chunk[3] of a shorter last chunk panics: see DecodePanics)
bytes_to_u32_chunks(bytes, endian) ==
    [k \in 0..((Len(bytes) + 3) \div 4) - 1 |->
        from_ne_bytes(bytes[4 * k + 1], bytes[4 * k + 2], bytes[4 * k + 3],
                      bytes[4 * k + 4], endian)]

\* chunk[1..3] is out of range for a last chunk of fewer than 4 bytes
DecodePanics(bytes) == Len(bytes) % 4 # 0

\* padded_text.chunks_exact(64): the number of blocks, and block n (from 0)
chunks_exact_count(padded_text) == Len(padded_text) \div 64

chunks_exact_at(padded_text, n) == SubSeq(padded_text, 64 * n + 1, 64 * n + 64)

\* ----------------------------------------------------- digest assembler

HexDigits == <<"0", "1", "2", "3", "4", "5", "6", "7",
               "8", "9", "a", "b", "c", "d", "e", "f">>

\* mutant of hex_digit: the digits of format!("{:X}")
hex_digit_upper(n) ==
    <<"0", "1", "2", "3", "4", "5", "6", "7", "8", "9", "A", "B", "C", "D", "E", "F">>[n + 1]

\* one hex digit of format!("{:x}")
hex_digit(n) == HexDigits[n + 1]

\* format!("{:08x}", x): 8 digits, most significant first
format_08x(x) ==
    << hex_digit(x[1] \div 4096), hex_digit((x[1] \div 256) % 16),
       hex_digit((x[1] \div 16) % 16), hex_digit(x[1] % 16),
       hex_digit(x[2] \div 4096), hex_digit((x[2] \div 256) % 16),
       hex_digit((x[2] \div 16) % 16), hex_digit(x[2] % 16) >>

\* format!("0x{}", [a, b, c, d].iter().map(|&x| format!("{:08x}", x.swap_bytes()))
\*                                    .collect::<String>())
format_digest(a, b, c, d) ==
    <<"0", "x">> \o format_08x(swap_bytes(a)) \o format_08x(swap_bytes(b))
                 \o format_08x(swap_bytes(c)) \o format_08x(swap_bytes(d))

\* the initial registers a, b, c, d
InitRegs ==
    [a |-> <<26437, 8961>>, b |-> <<61389, 43913>>,
     c |-> <<39098, 56574>>, d |-> <<4146, 21622>>]

\* mutant of add_saved: the saved registers are not added
add_saved_dropped(r, s) == r

\* a.wrapping_add(save_a), ..., d.wrapping_add(save_d)
add_saved(r, s) ==
    [a |-> wrapping_add(r.a, s.a), b |-> wrapping_add(r.b, s.b),
     c |-> wrapping_add(r.c, s.c), d |-> wrapping_add(r.d, s.d)]

\* ---------------------------------------------------------------- bounds

\* longest pattern text hashed, in bytes
MaxLen == 121

\* texts known by their length only: lengths base + 0..MaxOffset
MaxOffset == 70

\* --------------------------------------------------------------- inputs

\* the texts of tests::test_hash_empty, test_hash_a, test_hash_abc, test_hash_long
TextEmpty == <<>>

TextA == <<97>>

TextAbc == <<97, 98, 99>>

TextLong == [k \in 1..80 |-> 48 + (k % 10)]

\* a text of n printable ASCII bytes
PatternText(n) == [k \in 1..n |-> 32 + ((7 * k + 3 * n) % 95)]

\* "h\u{e9}llo": a text with a two-byte UTF-8 character
TextUtf8 == <<104, 195, 169, 108, 108, 111>>

Texts ==
    {TextEmpty, TextA, TextAbc, TextLong, TextUtf8} \cup {PatternText(n) : n \in 0..MaxLen}

\* targets and build profiles
Endians == {"little", "big"}

PointerWidths == {32, 64}

\* lengths (usize) a text can have on a target of the given pointer width,
\* around 0, around 2^(bits-3) (where the bit length stops fitting) and above;
\* every one is at most isize::MAX - 72, so that the pushes do not overflow the
\* capacity of the Vec
BaseLens(bits) ==
    IF bits = 64
    THEN { <<0, 0, 0, 0>>,
           <<65472, 65535, 65535, 8191>>,    \* 2^61 - 64
           <<0, 0, 0, 8192>>,                \* 2^61
           <<4660, 22136, 39612, 16384>>,    \* 0x4000_9ABC_5678_1234
           <<65280, 65535, 65535, 32767>> }  \* 2^63 - 256
    ELSE { <<0, 0, 0, 0>>,
           <<65472, 8191, 0, 0>>,            \* 2^29 - 64
           <<0, 8192, 0, 0>>,                \* 2^29
           <<4660, 16384, 0, 0>>,            \* 0x4000_1234
           <<65280, 32767, 0, 0>> }          \* 2^31 - 256

TextLens(bits) == {UsizeAdd(b, n) : b \in BaseLens(bits), n \in 0..MaxOffset}

\* ---------------------------------------------------------------- state

VARIABLES
    text,             \* the argument of hash: its bytes (Spec, SpecRounds) or,
                      \* for a text too long to write down, [len |-> usize]
    target_endian,    \* byte order of the target the crate is built for
    pointer_width,    \* width of usize on the target
    overflow_checks,  \* whether the build profile checks integer overflow
    pc,               \* position in hash
    padded_text,      \* let padded_text
    table,            \* let table
    regs,             \* let mut a, b, c, d
    save,             \* save_a, save_b, save_c, save_d
    chunk,            \* let chunk (the 16 words of the current block)
    idx,              \* number of blocks the chunks_exact iterator has yielded
    result,           \* what hash returned
    generic,          \* the registers of the generic step applied to the same
                      \* block, in lockstep with the rounds (read by no action
                      \* of hash)
    shift_distance,   \* the argument of Caesar::new
    caesar,           \* the Caesar it returned
    plain,            \* the text the cipher is first applied to
    arg,              \* the argument of the last call of encrypt or decrypt
    ret,              \* what that call returned
    ops,              \* the calls of encrypt and decrypt made so far, in order
    word_list,        \* brute_force: let word_list
    bf_i,             \* brute_force: next element of the range (0..25)
    bf_best,          \* brute_force: the maximum max_by_key holds so far
    bf_ret            \* what brute_force returned

\* the variables of the cipher and of its brute force
cipher_vars == <<shift_distance, caesar, plain, arg, ret, ops, word_list, bf_i,
                 bf_best, bf_ret>>

vars == <<text, target_endian, pointer_width, overflow_checks, pc, padded_text,
          table, regs, save, chunk, idx, result, generic, cipher_vars>>

build == <<text, target_endian, pointer_width, overflow_checks>>

NoWords == [k \in 0..15 |-> <<0, 0>>]

NoRegs == [a |-> <<0, 0>>, b |-> <<0, 0>>, c |-> <<0, 0>>, d |-> <<0, 0>>]

\* no cipher is in use
NoCipher ==
    /\ shift_distance = 0
    /\ caesar = <<>>
    /\ plain = <<>>
    /\ arg = <<>>
    /\ ret = [ok |-> FALSE, value |-> <<>>]
    /\ ops = <<>>
    /\ word_list = {}
    /\ bf_i = 0
    /\ bf_best = <<>>
    /\ bf_ret = [ok |-> FALSE, value |-> <<>>]

InitLocals ==
    /\ NoCipher
    /\ pc = "pad"
    /\ padded_text = <<>>
    /\ table = <<>>
    /\ regs = NoRegs
    /\ save = NoRegs
    /\ chunk = NoWords
    /\ idx = 0
    /\ result = [ok |-> FALSE, value |-> <<>>]
    /\ generic = NoRegs

Init ==
    /\ text \in Texts
    /\ target_endian \in Endians
    /\ pointer_width \in PointerWidths
    /\ overflow_checks \in BOOLEAN
    /\ InitLocals

\* ------------------------------------------------------ the generic step

\* message word index k of step m = 1..16 of round r
StepK ==
    << <<0, 1, 2, 3, 4, 5, 6, 7, 8, 9, 10, 11, 12, 13, 14, 15>>,
       <<1, 6, 11, 0, 5, 10, 15, 4, 9, 14, 3, 8, 13, 2, 7, 12>>,
       <<5, 8, 11, 14, 1, 4, 7, 10, 13, 0, 3, 6, 9, 12, 15, 2>>,
       <<0, 7, 14, 5, 12, 3, 10, 1, 8, 15, 6, 13, 4, 11, 2, 9>> >>

\* rotation cycle of round r
StepCycle ==
    << <<7, 12, 17, 22>>, <<5, 9, 14, 20>>, <<4, 11, 16, 23>>, <<6, 10, 15, 21>> >>

\* F, G, H, I of rounds 1..4
StepFunc(r, x, y, z) ==
    CASE r = 1 -> BitOr(BitAnd(x, y), BitAnd(BitNot(x), z))
      [] r = 2 -> BitOr(BitAnd(x, z), BitAnd(y, BitNot(z)))
      [] r = 3 -> BitXor(BitXor(x, y), z)
      [] r = 4 -> BitXor(y, BitOr(x, BitNot(z)))

\* step n = 1..64 on the registers st = [a, b, c, d]:
\* new_b = b + rotl(a + func(b,c,d) + X[k] + T[n], s); (a,b,c,d) := (d,new_b,b,c)
GenericStep(n, st, X, T) ==
    LET r     == ((n - 1) \div 16) + 1
        m     == ((n - 1) % 16) + 1
        k     == StepK[r][m]
        s     == StepCycle[r][((m - 1) % 4) + 1]
        sum   == wrapping_add(wrapping_add(wrapping_add(st.a,
                     StepFunc(r, st.b, st.c, st.d)), X[k]), T[n])
        new_b == wrapping_add(st.b, rotate_left(sum, s))
    IN  [a |-> st.d, b |-> new_b, c |-> st.b, d |-> st.c]

RECURSIVE GenericSteps(_, _, _, _, _)
\* steps n..last in order
GenericSteps(n, last, st, X, T) ==
    IF n > last THEN st
    ELSE GenericSteps(n + 1, last, GenericStep(n, st, X, T), X, T)

\* -------------------------------------------------------------- actions

\* hash, line 9: let padded_text = pad_input(text)
PadInput ==
    /\ pc = "pad"
    /\ LET r == pad_input(text, pointer_width, overflow_checks)
       IN  /\ padded_text' = r.bytes
           /\ pc' = IF r.panic THEN "panicked" ELSE "table"
    /\ UNCHANGED <<cipher_vars, build, table, regs, save, chunk, idx, result, generic>>

\* hash, lines 11-16: the table and the initial registers
BuildTable ==
    /\ pc = "table"
    /\ table' = build_value_table
    /\ regs' = InitRegs
    /\ pc' = "loop"
    /\ UNCHANGED <<cipher_vars, build, padded_text, save, chunk, idx, result, generic>>

\* hash, lines 18-21: the iterator yields the next block, which is decoded,
\* and the registers are saved
NextChunk ==
    /\ pc = "loop"
    /\ idx < chunks_exact_count(padded_text)
    /\ LET block == chunks_exact_at(padded_text, idx)
       IN  IF DecodePanics(block)
           THEN pc' = "panicked" /\ UNCHANGED <<chunk, save, generic, idx>>
           ELSE /\ chunk' = bytes_to_u32_chunks(block, target_endian)
                /\ save' = regs
                /\ generic' = regs
                /\ idx' = idx + 1
                /\ pc' = "round_1"
    /\ UNCHANGED <<cipher_vars, build, padded_text, table, regs, result>>

\* indexing chunks[0..15] or table[1..64] out of range panics
RoundPanics == ~ (0..15 \subseteq DOMAIN chunk /\ 1..64 \subseteq DOMAIN table)

\* hash, line 22: (a, b, c, d) = round_1(a, b, c, d, &chunk, &table)
Round1 ==
    /\ pc = "round_1"
    /\ IF RoundPanics
       THEN pc' = "panicked" /\ UNCHANGED <<regs, generic>>
       ELSE /\ regs' = round_1(regs.a, regs.b, regs.c, regs.d, chunk, table)
            /\ generic' = GenericSteps(1, 16, generic, chunk, table)
            /\ pc' = "round_2"
    /\ UNCHANGED <<cipher_vars, build, padded_text, table, save, chunk, idx, result>>

\* hash, line 23: (a, b, c, d) = round_2(a, b, c, d, &chunk, &table)
Round2 ==
    /\ pc = "round_2"
    /\ IF RoundPanics
       THEN pc' = "panicked" /\ UNCHANGED <<regs, generic>>
       ELSE /\ regs' = round_2(regs.a, regs.b, regs.c, regs.d, chunk, table)
            /\ generic' = GenericSteps(17, 32, generic, chunk, table)
            /\ pc' = "round_3"
    /\ UNCHANGED <<cipher_vars, build, padded_text, table, save, chunk, idx, result>>

\* hash, line 24: (a, b, c, d) = round_3(a, b, c, d, &chunk, &table)
Round3 ==
    /\ pc = "round_3"
    /\ IF RoundPanics
       THEN pc' = "panicked" /\ UNCHANGED <<regs, generic>>
       ELSE /\ regs' = round_3(regs.a, regs.b, regs.c, regs.d, chunk, table)
            /\ generic' = GenericSteps(33, 48, generic, chunk, table)
            /\ pc' = "round_4"
    /\ UNCHANGED <<cipher_vars, build, padded_text, table, save, chunk, idx, result>>

\* hash, line 25: (a, b, c, d) = round_4(a, b, c, d, &chunk, &table)
Round4 ==
    /\ pc = "round_4"
    /\ IF RoundPanics
       THEN pc' = "panicked" /\ UNCHANGED <<regs, generic>>
       ELSE /\ regs' = round_4(regs.a, regs.b, regs.c, regs.d, chunk, table)
            /\ generic' = GenericSteps(49, 64, generic, chunk, table)
            /\ pc' = "add"
    /\ UNCHANGED <<cipher_vars, build, padded_text, table, save, chunk, idx, result>>

\* hash, lines 27-30
AddSaved ==
    /\ pc = "add"
    /\ regs' = add_saved(regs, save)
    /\ pc' = "loop"
    /\ UNCHANGED <<cipher_vars, build, padded_text, table, save, chunk, idx, result, generic>>

\* hash, lines 33-39: the iterator is exhausted, the digest is formatted
Format ==
    /\ pc = "loop"
    /\ idx >= chunks_exact_count(padded_text)
    /\ result' = [ok |-> TRUE, value |-> format_digest(regs.a, regs.b, regs.c, regs.d)]
    /\ pc' = "done"
    /\ UNCHANGED <<cipher_vars, build, padded_text, table, regs, save, chunk, idx, generic>>

Next ==
    \/ PadInput
    \/ BuildTable
    \/ NextChunk
    \/ Round1
    \/ Round2
    \/ Round3
    \/ Round4
    \/ AddSaved
    \/ Format

Spec == Init /\ [][Next]_vars

\* ------------------------------------- pad_input on texts known by length

\* pad_input is applied to a text of which only the length is written down
InitPadLen ==
    /\ pointer_width \in PointerWidths
    /\ text \in {[len |-> n] : n \in TextLens(pointer_width)}
    /\ target_endian \in Endians
    /\ overflow_checks \in BOOLEAN
    /\ InitLocals

\* hash, line 9, for such a text: of padded_text, its length and its last 8
\* bytes are kept
PadInputLen ==
    /\ pc = "pad"
    /\ LET r == pad_input_len(text.len, pointer_width, overflow_checks)
       IN  /\ padded_text' = [len |-> r.len, tail |-> r.tail]
           /\ pc' = IF r.panic THEN "panicked" ELSE "table"
    /\ UNCHANGED <<cipher_vars, build, table, regs, save, chunk, idx, result, generic>>

NextPadLen == PadInputLen

SpecPadLen == InitPadLen /\ [][NextPadLen]_vars

\* ------------------------------------ the rounds on arbitrary registers

\* register values and blocks the rounds are applied to
SampleWords == {<<0, 0>>, <<65535, 65535>>, <<26437, 8961>>}

SampleBlocks ==
    { [k \in 0..15 |-> <<(4099 * k + 77) % Half, (257 * k * k + 32768) % Half>>],
      [k \in 0..15 |-> IF k % 2 = 0 THEN <<65535, 65535>> ELSE <<32768, 1>>] }

\* the four rounds are about to run on some block from some registers (the
\* rounds read neither the text nor the target nor the build profile)
InitRounds ==
    /\ NoCipher
    /\ text = <<>>
    /\ target_endian = "little"
    /\ pointer_width = 64
    /\ overflow_checks = FALSE
    /\ pc = "round_1"
    /\ padded_text = <<>>
    /\ table = build_value_table
    /\ regs \in [a : SampleWords, b : SampleWords, c : SampleWords, d : SampleWords]
    /\ save = regs
    /\ generic = regs
    /\ chunk \in SampleBlocks
    /\ idx = 1
    /\ result = [ok |-> FALSE, value |-> <<>>]

NextRounds ==
    \/ Round1
    \/ Round2
    \/ Round3
    \/ Round4

SpecRounds == InitRounds /\ [][NextRounds]_vars

\* ------------------------------------------------------- Caesar cipher

\* longest shift distance given to Caesar::new
MaxShift == 53

\* most calls of encrypt and decrypt made on one text
MaxOps == 2

\* u8::is_ascii_alphabetic
is_ascii_alphabetic(b) == (b >= 65 /\ b <= 90) \/ (b >= 97 /\ b <= 122)

\* u8::is_ascii_uppercase
is_ascii_uppercase(b) == b >= 65 /\ b <= 90

\* Caesar::new (the remainder is below 26, so try_into::<u8>().unwrap() succeeds)
Caesar_new(sd) == [shift_distance |-> sd, shift_distance_mod |-> sd % 26]

RECURSIVE valid_utf8_from(_, _)
\* std::str::from_utf8 accepts the bytes from position k on
valid_utf8_from(bs, k) ==
    LET n       == Len(bs)
        b       == bs[k]
        cont(j) == j <= n /\ bs[j] >= 128 /\ bs[j] <= 191
    IN  IF k > n THEN TRUE
        ELSE IF b < 128 THEN valid_utf8_from(bs, k + 1)
        ELSE IF b >= 194 /\ b <= 223
             THEN cont(k + 1) /\ valid_utf8_from(bs, k + 2)
        ELSE IF b >= 224 /\ b <= 239
             THEN /\ cont(k + 1) /\ cont(k + 2)
                  /\ (b = 224 => bs[k + 1] >= 160)
                  /\ (b = 237 => bs[k + 1] <= 159)
                  /\ valid_utf8_from(bs, k + 3)
        ELSE IF b >= 240 /\ b <= 244
             THEN /\ cont(k + 1) /\ cont(k + 2) /\ cont(k + 3)
                  /\ (b = 240 => bs[k + 1] >= 144)
                  /\ (b = 244 => bs[k + 1] <= 143)
                  /\ valid_utf8_from(bs, k + 4)
        ELSE FALSE

\* `std::str::from_utf8(&res_bytes)?` then Ok(to_string())
from_utf8(res_bytes) ==
    IF valid_utf8_from(res_bytes, 1)
    THEN [ok |-> TRUE, value |-> res_bytes]
    ELSE [ok |-> FALSE, value |-> <<>>]

\* mutant of encrypt_byte: the sum is not reduced modulo 26
encrypt_byte_no_mod(self, b) ==
    IF is_ascii_alphabetic(b) /\ is_ascii_uppercase(b)
    THEN ((b - 65 + self.shift_distance_mod) + 65) % 256
    ELSE b

\* encrypt, lines 49-59: new_byte (all in u8; the sum is at most 25 + 25)
encrypt_byte(self, b) ==
    IF is_ascii_alphabetic(b) /\ is_ascii_uppercase(b)
    THEN ((b - 65 + self.shift_distance_mod) % 26) + 65
    ELSE b

\* Caesar::encrypt
encrypt(self, plain_text) ==
    from_utf8([k \in 1..Len(plain_text) |-> encrypt_byte(self, plain_text[k])])

\* mutant of decrypt_byte: `%` (the sign of the dividend) instead of rem_euclid
decrypt_byte_rem(self, b) ==
    IF ~ is_ascii_alphabetic(b) \/ ~ is_ascii_uppercase(b)
    THEN b
    ELSE LET x == b - 65 - self.shift_distance_mod
         IN  ((IF x < 0 THEN - ((- x) % 26) ELSE x % 26) + 65) % 256

\* decrypt, lines 74-88: the byte pushed (in i16, then `as u8`; rem_euclid is
\* the modulus of TLA+)
decrypt_byte(self, b) ==
    IF ~ is_ascii_alphabetic(b) \/ ~ is_ascii_uppercase(b)
    THEN b
    ELSE (((b - 65 - self.shift_distance_mod) % 26) + 65) % 256

\* Caesar::decrypt
decrypt(self, cipher_text) ==
    from_utf8([k \in 1..Len(cipher_text) |-> decrypt_byte(self, cipher_text[k])])

\* texts given to the cipher: "HELLO WORLD" and "IFMMP XPSME" of the tests, "",
\* "AZ", "Hello, World 42!", "@[`{az" (the neighbours of the letters),
\* "\u{c9}T\u{c9}" and "Z\u{20ac}A" (non-ASCII characters)
CaesarTexts ==
    { <<72, 69, 76, 76, 79, 32, 87, 79, 82, 76, 68>>,
      <<73, 70, 77, 77, 80, 32, 88, 80, 83, 77, 69>>,
      <<>>, <<65, 90>>,
      <<72, 101, 108, 108, 111, 44, 32, 87, 111, 114, 108, 100, 32, 52, 50, 33>>,
      <<64, 91, 96, 123, 97, 122>>, <<195, 137, 84, 195, 137>>, <<90, 226, 130, 172, 65>> }

\* the variables of hash
hash_vars == <<text, target_endian, pointer_width, overflow_checks, padded_text,
               table, regs, save, chunk, idx, result, generic>>

\* hash is not running (the cipher reads neither the target nor the profile)
NoHash ==
    /\ text = <<>>
    /\ target_endian = "little"
    /\ pointer_width = 64
    /\ overflow_checks = FALSE
    /\ padded_text = <<>>
    /\ table = <<>>
    /\ regs = NoRegs
    /\ save = NoRegs
    /\ chunk = NoWords
    /\ idx = 0
    /\ result = [ok |-> FALSE, value |-> <<>>]
    /\ generic = NoRegs

\* a cipher is about to be constructed for some text
InitCipher(texts) ==
    /\ NoHash
    /\ pc = "new"
    /\ shift_distance \in 0..MaxShift
    /\ plain \in texts
    /\ caesar = <<>>
    /\ arg = <<>>
    /\ ret = [ok |-> FALSE, value |-> <<>>]
    /\ ops = <<>>
    /\ word_list = {}
    /\ bf_i = 0
    /\ bf_best = <<>>
    /\ bf_ret = [ok |-> FALSE, value |-> <<>>]

InitCaesar == InitCipher(CaesarTexts)

\* let caesar = Caesar::new(shift_distance)
CaesarNew ==
    /\ pc = "new"
    /\ caesar' = Caesar_new(shift_distance)
    /\ pc' = "ready"
    /\ UNCHANGED <<hash_vars, shift_distance, plain, arg, ret, ops, word_list, bf_i,
                   bf_best, bf_ret>>

\* the text the next call is given: the first text, then what the last call
\* returned (`.unwrap()`)
NextArg == IF ops = <<>> THEN plain ELSE ret.value

CanCall == pc = "ready" /\ Len(ops) < MaxOps /\ (ops = <<>> \/ ret.ok)

\* caesar.encrypt(..)
Encrypt ==
    /\ CanCall
    /\ arg' = NextArg
    /\ ret' = encrypt(caesar, NextArg)
    /\ ops' = Append(ops, "encrypt")
    /\ UNCHANGED <<hash_vars, pc, shift_distance, caesar, plain, word_list, bf_i,
                   bf_best, bf_ret>>

\* caesar.decrypt(..)
Decrypt ==
    /\ CanCall
    /\ arg' = NextArg
    /\ ret' = decrypt(caesar, NextArg)
    /\ ops' = Append(ops, "decrypt")
    /\ UNCHANGED <<hash_vars, pc, shift_distance, caesar, plain, word_list, bf_i,
                   bf_best, bf_ret>>

NextCaesar ==
    \/ CaesarNew
    \/ Encrypt
    \/ Decrypt

SpecCaesar == InitCaesar /\ [][NextCaesar]_vars

\* --------------------------------------------------------- brute force

\* the end of the range `(0..25)` of brute_force
RangeEnd == 25

\* str::to_ascii_uppercase
to_ascii_uppercase(s) ==
    [k \in 1..Len(s) |-> IF s[k] >= 97 /\ s[k] <= 122 THEN s[k] - 32 ELSE s[k]]

\* lines of a word file: "the", "and", "end", "enemy", "instant", "hello",
\* "world", "a"
WordFile ==
    { <<116, 104, 101>>,
      <<97, 110, 100>>,
      <<101, 110, 100>>,
      <<101, 110, 101, 109, 121>>,
      <<105, 110, 115, 116, 97, 110, 116>>,
      <<104, 101, 108, 108, 111>>,
      <<119, 111, 114, 108, 100>>,
      <<97>> }

\* load_word_list, the file being readable
load_word_list(lines) == {to_ascii_uppercase(l) : l \in lines}

\* str::contains(&String)
contains(hay, needle) ==
    \E k \in 0..(Len(hay) - Len(needle)) : SubSeq(hay, k + 1, k + Len(needle)) = needle

\* brute_force, lines 23-26: unique_word_count
unique_word_count(words, decoded) == Cardinality({w \in words : contains(decoded, w)})

\* max_by_key(|(count, _)| *count) on one more element: of equal maxima the
\* last is kept
max_by_key(best, cand) == IF best = <<>> \/ cand[1] >= best[1] THEN cand ELSE best

\* plain texts of the brute force: "INSTANT ENEMY" of test_brute_force_short,
\* "HELLO WORLD", "THE END", and "XQZ" (no word of the list)
BruteTexts ==
    { <<73, 78, 83, 84, 65, 78, 84, 32, 69, 78, 69, 77, 89>>,
      <<72, 69, 76, 76, 79, 32, 87, 79, 82, 76, 68>>,
      <<84, 72, 69, 32, 69, 78, 68>>,
      <<88, 81, 90>> }

InitBrute == InitCipher(BruteTexts)

\* brute_force, line 14, called on what encrypt returned
BruteStart ==
    /\ pc = "ready"
    /\ ops = <<"encrypt">>
    /\ ret.ok
    /\ arg' = ret.value
    /\ word_list' = load_word_list(WordFile)
    /\ bf_i' = 0
    /\ bf_best' = <<>>
    /\ pc' = "brute"
    /\ UNCHANGED <<hash_vars, shift_distance, caesar, plain, ret, ops, bf_ret>>

\* brute_force, lines 16-29: the next element of the range
BruteStep ==
    /\ pc = "brute"
    /\ bf_i < RangeEnd
    /\ LET decoded == decrypt(Caesar_new(bf_i), arg)
       IN  bf_best' = IF decoded.ok
                      THEN max_by_key(bf_best,
                               <<unique_word_count(word_list, decoded.value),
                                 decoded.value>>)
                      ELSE bf_best
    /\ bf_i' = bf_i + 1
    /\ UNCHANGED <<hash_vars, pc, shift_distance, caesar, plain, arg, ret, ops,
                   word_list, bf_ret>>

\* brute_force, lines 29-31: the range is exhausted
BruteFinish ==
    /\ pc = "brute"
    /\ bf_i >= RangeEnd
    /\ bf_ret' = IF bf_best = <<>>
                 THEN [ok |-> FALSE, value |-> <<>>]
                 ELSE [ok |-> TRUE, value |-> bf_best[2]]
    /\ pc' = "brute_done"
    /\ UNCHANGED <<hash_vars, shift_distance, caesar, plain, arg, ret, ops,
                   word_list, bf_i, bf_best>>

NextBrute ==
    \/ CaesarNew
    \/ Encrypt
    \/ BruteStart
    \/ BruteStep
    \/ BruteFinish

SpecBrute == InitBrute /\ [][NextBrute]_vars

\* ---------------------------------------------------------------- claims

\* the digests tests::test_hash_empty, test_hash_a, test_hash_abc and
\* test_hash_long expect after the "0x" prefix
DigestEmpty ==
    <<"d", "4", "1", "d", "8", "c", "d", "9", "8", "f", "0", "0", "b", "2", "0", "4",
      "e", "9", "8", "0", "0", "9", "9", "8", "e", "c", "f", "8", "4", "2", "7", "e">>

DigestA ==
    <<"0", "c", "c", "1", "7", "5", "b", "9", "c", "0", "f", "1", "b", "6", "a", "8",
      "3", "1", "c", "3", "9", "9", "e", "2", "6", "9", "7", "7", "2", "6", "6", "1">>

DigestAbc ==
    <<"9", "0", "0", "1", "5", "0", "9", "8", "3", "c", "d", "2", "4", "f", "b", "0",
      "d", "6", "9", "6", "3", "f", "7", "d", "2", "8", "e", "1", "7", "f", "7", "2">>

DigestLong ==
    <<"5", "7", "e", "d", "f", "4", "a", "2", "2", "b", "e", "3", "c", "9", "5", "5",
      "a", "c", "4", "9", "d", "a", "2", "e", "2", "1", "0", "7", "b", "6", "7", "a">>

\* the result Ok("0x" + digits)
OkHex(digits) == [ok |-> TRUE, value |-> <<"0", "x">> \o digits]

\* what the tests expect of the text being hashed, if it is one of theirs
Expected ==
    CASE text = TextEmpty -> OkHex(DigestEmpty)
      [] text = TextA -> OkHex(DigestA)
      [] text = TextAbc -> OkHex(DigestAbc)
      [] text = TextLong -> OkHex(DigestLong)

IsTestText == text \in {TextEmpty, TextA, TextAbc, TextLong}

\* C1: hash returns Ok with the digests d41d8cd9..., 0cc175b9..., 90015098...
\* and 57edf4a2... (after the "0x" prefix) for "", "a", "abc" and
\* "1234567890" x 8.
C1_KnownVectors ==
    IsTestText => pc \notin {"panicked"} /\ (pc = "done" => result = Expected)

\* the same on little-endian targets only
C1_KnownVectorsLittle ==
    (IsTestText /\ target_endian = "little") =>
        pc \notin {"panicked"} /\ (pc = "done" => result = Expected)

\* the text was padded and hash went on
Padded == pc \notin {"pad", "panicked"}

\* C2: for every input byte sequence, the output of pad_input has a length
\* that is a multiple of 64.
C2_PaddedMultipleOf64 == Padded => Len(padded_text) % 64 = 0

\* C2 witness: a 120-byte text was padded to three blocks
C2_Witness ==
    /\ pc = "table"
    /\ Len(text) = 120
    /\ Len(padded_text) = 192

RECURSIVE Double(_, _)
\* 2^n * x modulo 2^64, for x a u64, by repeated doubling
Double(x, n) ==
    IF n = 0 THEN x
    ELSE LET s1 == 2 * x[1]
             s2 == 2 * x[2] + (s1 \div Half)
             s3 == 2 * x[3] + (s2 \div Half)
             s4 == 2 * x[4] + (s3 \div Half)
         IN  Double(<<s1 % Half, s2 % Half, s3 % Half, s4 % Half>>, n - 1)

\* 8 bytes read as a little-endian u64
LittleEndian64(bs) ==
    <<bs[1] + 256 * bs[2], bs[3] + 256 * bs[4], bs[5] + 256 * bs[6], bs[7] + 256 * bs[8]>>

\* C3: the last 8 bytes of pad_input's output, read as a little-endian u64,
\* equal (n * 8) mod 2^64 for an input of n bytes, and pad_input does not
\* panic, also when n * 8 does not fit in 64 bits.
C3_LengthSuffix ==
    /\ pc # "panicked"
    /\ pc = "table" => LittleEndian64(padded_text.tail) = Double(text.len, 3)

\* the same where the build does not check integer overflow (release)
C3_LengthSuffixUnchecked ==
    ~ overflow_checks =>
        /\ pc # "panicked"
        /\ pc = "table" => LittleEndian64(padded_text.tail) = Double(text.len, 3)

\* pad_input on a text given by its bytes and on its length alone agree
PadLenAgrees ==
    Padded =>
        LET r == pad_input_len(ToUsize(Len(text)), pointer_width, overflow_checks)
        IN  /\ ~ r.panic
            /\ r.len = ToUsize(Len(padded_text))
            /\ r.tail = SubSeq(padded_text, Len(padded_text) - 7, Len(padded_text))

\* byte k = 1..8 of the little-endian u64 of a number below 2^31
LittleEndianByte(n, k) ==
    CASE k = 1 -> n % 256
      [] k = 2 -> (n \div 256) % 256
      [] k = 3 -> (n \div 65536) % 256
      [] k = 4 -> n \div 16777216
      [] OTHER -> 0

\* C4: pad_input's output is the input, then 0x80, then only zero bytes, then
\* the 8-byte length suffix; its length is the smallest multiple of 64 that is
\* at least n + 9: n + 9 when n mod 64 = 55, n + 72 when n mod 64 = 56.
C4_PaddingLayout ==
    Padded =>
        LET n == Len(text)
            m == Len(padded_text)
        IN  /\ m % 64 = 0
            /\ m >= n + 9
            /\ m - 64 < n + 9
            /\ SubSeq(padded_text, 1, n) = text
            /\ padded_text[n + 1] = 128
            /\ \A k \in (n + 2)..(m - 8) : padded_text[k] = 0
            /\ \A k \in 1..8 : padded_text[m - 8 + k] = LittleEndianByte(8 * n, k)
            /\ (n % 64 = 55 => m = n + 9)
            /\ (n % 64 = 56 => m = n + 72)

\* C4 witness: a 56-byte text was padded with 0x80 and 63 zero bytes
C4_Witness ==
    /\ pc = "table"
    /\ Len(text) = 56
    /\ Len(padded_text) = 128
    /\ padded_text[57] = 128
    /\ \A k \in 58..120 : padded_text[k] = 0

\* the block the iterator yielded last
CurrentBlock == SubSeq(padded_text, 64 * (idx - 1) + 1, 64 * idx)

InRounds == pc \in {"round_1", "round_2", "round_3", "round_4", "add"}

\* C5: bytes_to_u32_chunks maps every 64-byte block to exactly 16 words,
\* word k = byte[4k] + 2^8 byte[4k+1] + 2^16 byte[4k+2] + 2^24 byte[4k+3],
\* whatever the byte order of the machine.
C5_LittleEndianWords ==
    InRounds =>
        /\ DOMAIN chunk = 0..15
        /\ \A k \in 0..15 :
              chunk[k] = <<CurrentBlock[4 * k + 3] + 256 * CurrentBlock[4 * k + 4],
                           CurrentBlock[4 * k + 1] + 256 * CurrentBlock[4 * k + 2]>>

\* the same on little-endian targets only
C5_LittleEndianWordsLittle == target_endian = "little" => C5_LittleEndianWords

LowerHex == {"0", "1", "2", "3", "4", "5", "6", "7", "8", "9", "a", "b", "c", "d", "e", "f"}

\* C6 as stated: the string hash returns is exactly 32 characters long and
\* consists only of lowercase hexadecimal digits.
C6_ThirtyTwoHexChars ==
    pc = "done" =>
        /\ Len(result.value) = 32
        /\ \A k \in 1..Len(result.value) : result.value[k] \in LowerHex

\* C6 amended: the string hash returns is "0x" followed by exactly 32
\* lowercase hexadecimal digits (34 characters).
C6_PrefixThenThirtyTwoHexChars ==
    pc = "done" =>
        /\ result.ok
        /\ Len(result.value) = 34
        /\ result.value[1] = "0"
        /\ result.value[2] = "x"
        /\ \A k \in 3..Len(result.value) : result.value[k] \in LowerHex

\* C6 witness: a digest whose first register prints with a leading zero
C6_Witness ==
    /\ pc = "done"
    /\ text = TextA
    /\ SubSeq(result.value, 1, 4) = <<"0", "x", "0", "c">>

\* C7: hash is total: it returns Ok and neither returns Err nor panics; every
\* block handed to the rounds has 16 words and the table 65 entries, and the
\* blocks processed are padded_length / 64 with no trailing bytes.
C7_HashTotal ==
    /\ pc # "panicked"
    /\ pc = "done" => result.ok
    /\ InRounds => DOMAIN chunk = 0..15 /\ DOMAIN table = 0..64
    /\ pc = "done" => 64 * idx = Len(padded_text)

\* the same for the texts written down byte by byte (all far shorter than 2^29)
C7_HashTotalOnShortTexts == C7_HashTotal

\* byte j = 0..3 (bits 8j..8j+7) of a u32
ByteOf(x, j) ==
    CASE j = 0 -> x[2] % 256
      [] j = 1 -> x[2] \div 256
      [] j = 2 -> x[1] % 256
      [] j = 3 -> x[1] \div 256

LowerHexOf == <<"0", "1", "2", "3", "4", "5", "6", "7",
                "8", "9", "a", "b", "c", "d", "e", "f">>

\* the two lowercase hex characters of a byte
HexPair(byte) == <<LowerHexOf[(byte \div 16) + 1], LowerHexOf[(byte % 16) + 1]>>

RegisterOf(r) ==
    CASE r = 0 -> regs.a
      [] r = 1 -> regs.b
      [] r = 2 -> regs.c
      [] r = 3 -> regs.d

\* C8: hex character pair number 4r + j of the digest (r = 0..3 for a..d,
\* j = 0..3), counted after the "0x" prefix, is byte j of register r.
C8_DigestByteOrder ==
    pc = "done" =>
        \A r \in 0..3 : \A j \in 0..3 :
            SubSeq(result.value, 2 + 2 * (4 * r + j) + 1, 2 + 2 * (4 * r + j) + 2)
                = HexPair(ByteOf(RegisterOf(r), j))

\* C8 witness: the digest of "abc", whose first register is 0x98500190
C8_Witness ==
    /\ pc = "done"
    /\ text = TextAbc
    /\ target_endian = "little"
    /\ regs.a = <<38992, 400>>
    /\ SubSeq(result.value, 3, 10) = <<"9", "0", "0", "1", "5", "0", "9", "8">>

AddMod32(x, y) ==
    <<(x[1] + y[1] + ((x[2] + y[2]) \div Half)) % Half, (x[2] + y[2]) % Half>>

\* C10: the registers start at (0x67452301, 0xEFCDAB89, 0x98BADCFE, 0x10325476);
\* the blocks are consumed in forward order, each once; after a block every
\* register is its value before the block plus its value after the four
\* rounds, modulo 2^32; block processing changes neither the padded message
\* nor the table.
C10_StateCarried ==
    [][ /\ pc = "table" =>
              /\ regs' = [a |-> <<26437, 8961>>, b |-> <<61389, 43913>>,
                          c |-> <<39098, 56574>>, d |-> <<4146, 21622>>]
              /\ idx' = 0
        /\ (pc = "loop" /\ pc' = "round_1") =>
              /\ idx' = idx + 1
              /\ chunk' = bytes_to_u32_chunks(SubSeq(padded_text, 64 * idx + 1, 64 * idx + 64),
                                              target_endian)
              /\ save' = regs
              /\ regs' = regs
        /\ InRounds => save' = save /\ chunk' = chunk /\ idx' = idx
        /\ pc = "add" =>
              /\ regs'.a = AddMod32(save.a, regs.a)
              /\ regs'.b = AddMod32(save.b, regs.b)
              /\ regs'.c = AddMod32(save.c, regs.c)
              /\ regs'.d = AddMod32(save.d, regs.d)
        /\ (pc = "loop" \/ InRounds) => padded_text' = padded_text /\ table' = table
        /\ pc' = "done" => 64 * idx = Len(padded_text)
      ]_vars

\* C10 witness: the second block of a text is done and changed the registers
C10_Witness ==
    /\ pc = "loop"
    /\ idx = 2
    /\ regs # save
    /\ regs # InitRegs

\* the text with every uppercase letter moved k places down the alphabet
ShiftedBy(s, k) ==
    [j \in 1..Len(s) |->
        IF s[j] \in 65..90 THEN 65 + ((s[j] - 65 + k) % 26) ELSE s[j]]

\* how many words of the list the text contains
WordCount(s) == Cardinality({w \in word_list : contains(s, w)})

\* the text contains more words than any of its other 25 shifted forms
MostWords(s) == \A k \in 1..25 : WordCount(ShiftedBy(s, k)) < WordCount(s)

BruteForced == pc = "brute_done" /\ ops = <<"encrypt">>

\* C11: brute_force tries all 26 shift distances and returns the candidate
\* with the most dictionary words; so for a plain text with more words than
\* any of its other 25 shifted forms, brute_force(encrypt(p)) returns p.
C11_BruteForceRecovers ==
    BruteForced =>
        /\ bf_ret.ok
        /\ \A k \in 0..25 : WordCount(bf_ret.value) >= WordCount(ShiftedBy(arg, k))
        /\ MostWords(plain) => bf_ret.value = plain

\* the same for the keys that are not 25 modulo 26
C11_BruteForceRecoversUnless25 == shift_distance % 26 # 25 => C11_BruteForceRecovers

\* of the candidates of shift distances 0..24, brute_force returns one with
\* the most words
C11_BestOfTwentyFive ==
    BruteForced =>
        /\ bf_ret.ok
        /\ \E k \in 0..24 : bf_ret.value = ShiftedBy(arg, 26 - k)
        /\ \A k \in 0..24 : WordCount(bf_ret.value) >= WordCount(ShiftedBy(arg, 26 - k))

\* one call of the cipher has returned: `Last(ops)` was given arg, returned ret
Called(op) == ops # <<>> /\ ops[Len(ops)] = op

\* the letter b of A-Z moved by k places (k may be negative) around the alphabet
Rotated(b, k) == 65 + ((b - 65 + k) % 26)

\* out is text with every byte of A-Z moved by k places and every other byte kept
ShiftsLetters(text_in, out, k) ==
    /\ Len(out) = Len(text_in)
    /\ \A j \in 1..Len(text_in) :
          IF text_in[j] \in 65..90
          THEN out[j] \in 65..90 /\ out[j] = Rotated(text_in[j], k)
          ELSE out[j] = text_in[j]

\* C12: encrypt and decrypt depend on the shift distance only modulo 26
\* (Caesar::new(s) and Caesar::new(s + 26) give the same results, shift 0 is
\* the identity), move each letter of A-Z within A-Z by the shift, and leave
\* every other byte unchanged, the output being as long as the input.
C12_ShiftModulo26 ==
    /\ Called("encrypt") =>
          /\ ret.ok
          /\ ShiftsLetters(arg, ret.value, shift_distance)
          /\ ret = encrypt(Caesar_new(shift_distance + 26), arg)
          /\ ret = encrypt(Caesar_new(shift_distance % 26), arg)
          /\ shift_distance % 26 = 0 => ret.value = arg
    /\ Called("decrypt") =>
          /\ ret.ok
          /\ ShiftsLetters(arg, ret.value, - shift_distance)
          /\ ret = decrypt(Caesar_new(shift_distance + 26), arg)
          /\ ret = decrypt(Caesar_new(shift_distance % 26), arg)
          /\ shift_distance % 26 = 0 => ret.value = arg

\* test_encrypt_sd_53: "HELLO WORLD" has become "IFMMP XPSME", and a text with
\* lowercase letters, digits and punctuation has been decrypted
C12_Witness ==
    \/ /\ ops = <<"encrypt">>
       /\ shift_distance = 53
       /\ arg = <<72, 69, 76, 76, 79, 32, 87, 79, 82, 76, 68>>
       /\ ret.value = <<73, 70, 77, 77, 80, 32, 88, 80, 83, 77, 69>>
    \/ /\ ops = <<"decrypt">>
       /\ shift_distance = 27
       /\ arg = <<90, 226, 130, 172, 65>>
       /\ ret.value = <<89, 226, 130, 172, 90>>

\* C13: for every shift distance and every text p, decrypt(encrypt(p)) = p and
\* encrypt(decrypt(p)) = p under the same cipher, both calls returning Ok.
C13_RoundTrip ==
    /\ ops # <<>> => ret.ok
    /\ Len(ops) = 2 /\ ops[1] # ops[2] => ret.value = plain

\* a text with letters went through a shift that is not 0 modulo 26 and came
\* back, in either order of the two calls
C13_Witness ==
    /\ ops \in {<<"encrypt", "decrypt">>, <<"decrypt", "encrypt">>}
    /\ shift_distance % 26 # 0
    /\ \E j \in 1..Len(plain) : plain[j] \in 65..90
    /\ arg # plain
    /\ ret.ok
    /\ ret.value = plain

====
